---- MODULE Spec2Model ----
(***************************************************************************)
(* The product store of the tracking dashboard (utils/zustandStore.ts):    *)
(* an in-memory ordered collection of products, mirrored to the            *)
(* 'products' item of the browser's local storage by every mutation.       *)
(*                                                                         *)
(* A product is a record over the keys id, title, eta and status (title    *)
(* stands for the free-text fields, which the store treats alike).  A key  *)
(* the JavaScript object does not have holds Absent; a key that is present *)
(* with the value undefined holds Undefined.  The JSON text kept in local  *)
(* storage is modelled by the structure it encodes.                        *)
(*                                                                         *)
(* Spec draws the inputs that vary ids and status, SpecStorage the inputs  *)
(* that vary the eta number (NaN included, which JSON writes as null), and *)
(* SpecTable fills the collection from one input and drives the product    *)
(* table (its page state, its Delete, Previous and Next buttons).          *)
(*                                                                         *)
(* SpecForm drives the modal of the home page and the product form in it.   *)
(*                                                                         *)
(* lastOp names the operation called or the button clicked last (typing in *)
(* the form's inputs is not recorded) and outcome how it went: "hit"       *)
(* or "miss" for an update or delete by id, "threw" when the call raised   *)
(* to its caller, "ok" otherwise.                                          *)
(***************************************************************************)
EXTENDS Integers, Sequences, FiniteSets, TLC

VARIABLES products, localStorage, hasWindow, uuidCount, lastOp, outcome,
          tablePage, isModalOpen, selectedProduct, formData

vars ==
  <<products, localStorage, hasWindow, uuidCount, lastOp, outcome, tablePage,
    isModalOpen, selectedProduct, formData>>

\* the state of HomePage's modal and of the ProductForm inside it
formVars == <<isModalOpen, selectedProduct, formData>>

\* ---------------------------------------------------------------- bounds
\* number of crypto.randomUUID() results drawn in one behaviour
MaxUuid == 2
\* the same, for the behaviours that fill the product table
MaxTableUuid == 7
\* largest page size tried by the pagination properties
MaxPageSize == 3
\* number of products created through the form in one behaviour
MaxFormUuid == 1
\* number of package rows of the form
MaxPackages == 1

\* ---------------------------------------------------------------- values
\* const pageSize = 5 of ProductTable
tablePageSize == 5

Absent == "<absent>"
Undefined == "undefined"
NaN == "NaN"
Null == "null"

Pending == "Pending"
Delivered == "Delivered"
Cancelled == "Cancelled"

Status == {Pending, Delivered, Cancelled}

\* eta: number -- a timestamp, or the number NaN
Timestamp == "1700000000"
EtaNumbers == {Timestamp, NaN}

Keys == {"id", "title", "eta", "status"}

\* the n-th result of crypto.randomUUID(): never equal to an earlier one
randomUUID(n) == ToString(n)

GeneratedIds == {randomUUID(n) : n \in 1..uuidCount}

\* an id string that is no UUID of this behaviour
ForeignId == "x"

Min(a, b) == IF a < b THEN a ELSE b
Max(a, b) == IF a > b THEN a ELSE b

\* ---------------------------------------------------------------- JSON
\* JSON.stringify of one value inside an object: a key whose value is
\* undefined is left out, a non-finite number is written as null
stringifyValue(v) ==
  IF v = Undefined THEN Absent
  ELSE IF v = NaN THEN Null
  ELSE v

JSONstringify(ps) ==
  [i \in 1..Len(ps) |-> [k \in Keys |-> stringifyValue(ps[i][k])]]

\* JSON.parse of a well-formed text gives back the encoded structure
JSONparse(text) == text

NoItem == [kind |-> "none", text |-> <<>>]
Item(text) == [kind |-> "json", text |-> text]
\* a non-empty stored text that is no JSON: JSON.parse throws a SyntaxError
MalformedItem == [kind |-> "malformed", text |-> <<>>]

\* ---------------------------------------------------------------- store
\* { ...a, ...b }: every key b has, whatever its value, overrides a's
Spread(a, b) == [k \in Keys |-> IF b[k] # Absent THEN b[k] ELSE a[k]]

\* Array.prototype.slice(start, end) over a sequence
slice(ps, start, end) ==
  LET len == Len(ps)
      from == IF start < 0 THEN Max(len + start, 0) ELSE Min(start, len)
      to == IF end < 0 THEN Max(len + end, 0) ELSE Min(end, len)
  IN SubSeq(ps, from + 1, to)

\* fetchProducts with the page taken as zero-based
fetchProducts_zeroBased(page, pageSize) ==
  LET start == page * pageSize
  IN slice(products, start, start + pageSize)

\* fetchProducts with an inclusive end index
fetchProducts_inclusiveEnd(page, pageSize) ==
  LET start == (page - 1) * pageSize
  IN slice(products, start, start + pageSize + 1)

fetchProducts(page, pageSize) ==
  LET start == (page - 1) * pageSize
  IN slice(products, start, start + pageSize)

countProducts == Len(products)

filterLength(ps, status) ==
  Cardinality({i \in 1..Len(ps) : ps[i].status = status})

productsByStatus ==
  [pending |-> filterLength(products, Pending),
   delivered |-> filterLength(products, Delivered),
   cancelled |-> filterLength(products, Cancelled)]

\* setItem without the typeof window guard
setItem_noGuard(updatedProducts) == Item(JSONstringify(updatedProducts))

\* localStorage.setItem('products', JSON.stringify(updatedProducts)) under
\* the typeof window guard
setItem(updatedProducts) ==
  IF hasWindow THEN Item(JSONstringify(updatedProducts)) ELSE localStorage

\* the inputs of createProduct: Omit<Product, 'id'>; the form passes a
\* Partial<Product> under a cast, so the status key may be missing
CreateInputs ==
  [id : {Absent}, title : {"a"}, eta : {Timestamp}, status : Status \cup {Absent}]

\* the inputs the storage behaviours create products from: any eta: number
StorageInputs ==
  [id : {Absent}, title : {"a"}, eta : EtaNumbers, status : {Pending}]

\* the one input the table's behaviours create products from
TableInputs ==
  [id : {Absent}, title : {"a"}, eta : {Timestamp}, status : {Pending}]

NoFields == [k \in Keys |-> Absent]

\* the inputs of updateProduct: Partial<Product>, here the empty partial
\* and the partials that name the id or the status
Partials ==
  {NoFields}
    \cup {[NoFields EXCEPT !.id = v] : v \in GeneratedIds}
    \cup {[NoFields EXCEPT !.status = v] : v \in Status}

\* the partials that name the eta
EtaPartials == {[NoFields EXCEPT !.eta = v] : v \in EtaNumbers}

IdArgs == GeneratedIds \cup {ForeignId}

\* whether the callback of map / filter meets a product with this id
matches(id) == \E i \in 1..Len(products) : products[i].id = id
hitOrMiss(id) == IF matches(id) THEN "hit" ELSE "miss"

\* createProduct putting the new product first
createProduct_prepend(product) ==
  /\ LET newProduct ==
           Spread([NoFields EXCEPT !.id = randomUUID(uuidCount + 1)], product)
         updatedProducts == <<newProduct>> \o products
     IN /\ localStorage' = setItem(updatedProducts)
        /\ products' = updatedProducts
  /\ uuidCount' = uuidCount + 1
  /\ lastOp' = "createProduct"
  /\ outcome' = "ok"
  /\ UNCHANGED hasWindow

createProduct(product) ==
  /\ LET newProduct ==
           Spread([NoFields EXCEPT !.id = randomUUID(uuidCount + 1)], product)
         updatedProducts == Append(products, newProduct)
     IN /\ localStorage' = setItem(updatedProducts)
        /\ products' = updatedProducts
  /\ uuidCount' = uuidCount + 1
  /\ lastOp' = "createProduct"
  /\ outcome' = "ok"
  /\ UNCHANGED hasWindow

\* updateProduct putting the partial in the place of the matched product
updateProduct_replace(id, updatedProduct) ==
  /\ LET updatedProducts ==
           [i \in 1..Len(products) |->
              IF products[i].id = id THEN updatedProduct ELSE products[i]]
     IN /\ localStorage' = setItem(updatedProducts)
        /\ products' = updatedProducts
  /\ lastOp' = "updateProduct"
  /\ outcome' = hitOrMiss(id)
  /\ UNCHANGED <<hasWindow, uuidCount>>

\* updateProduct writing to local storage only when a product matched
updateProduct_writeOnHit(id, updatedProduct) ==
  /\ LET updatedProducts ==
           [i \in 1..Len(products) |->
              IF products[i].id = id
              THEN Spread(products[i], updatedProduct)
              ELSE products[i]]
     IN /\ localStorage' =
             IF matches(id) THEN setItem(updatedProducts) ELSE localStorage
        /\ products' = updatedProducts
  /\ lastOp' = "updateProduct"
  /\ outcome' = hitOrMiss(id)
  /\ UNCHANGED <<hasWindow, uuidCount>>

updateProduct(id, updatedProduct) ==
  /\ LET updatedProducts ==
           [i \in 1..Len(products) |->
              IF products[i].id = id
              THEN Spread(products[i], updatedProduct)
              ELSE products[i]]
     IN /\ localStorage' = setItem(updatedProducts)
        /\ products' = updatedProducts
  /\ lastOp' = "updateProduct"
  /\ outcome' = hitOrMiss(id)
  /\ UNCHANGED <<hasWindow, uuidCount>>

\* deleteProduct dropping everything from the first match on
deleteProduct_truncate(id) ==
  /\ LET hits == {i \in 1..Len(products) : products[i].id = id}
         first == IF hits = {} THEN Len(products) + 1
                  ELSE CHOOSE i \in hits : \A j \in hits : i <= j
         updatedProducts == SubSeq(products, 1, first - 1)
     IN /\ localStorage' = setItem(updatedProducts)
        /\ products' = updatedProducts
  /\ lastOp' = "deleteProduct"
  /\ outcome' = hitOrMiss(id)
  /\ UNCHANGED <<hasWindow, uuidCount>>

deleteProduct(id) ==
  /\ LET updatedProducts == SelectSeq(products, LAMBDA p : p.id # id)
     IN /\ localStorage' = setItem(updatedProducts)
        /\ products' = updatedProducts
  /\ lastOp' = "deleteProduct"
  /\ outcome' = hitOrMiss(id)
  /\ UNCHANGED <<hasWindow, uuidCount>>

\* syncWithLocalStorage adding the stored products to those in memory
syncWithLocalStorage_merge ==
  /\ products' =
       IF hasWindow /\ localStorage.kind = "json"
       THEN products \o JSONparse(localStorage.text)
       ELSE products
  /\ lastOp' = "syncWithLocalStorage"
  /\ outcome' =
       IF hasWindow /\ localStorage.kind = "malformed" THEN "threw" ELSE "ok"
  /\ UNCHANGED <<localStorage, hasWindow, uuidCount>>

\* syncWithLocalStorage emptying the collection when there is no item
syncWithLocalStorage_resetOnMissing ==
  /\ products' =
       IF hasWindow /\ localStorage.kind = "json"
       THEN JSONparse(localStorage.text)
       ELSE IF hasWindow /\ localStorage.kind = "none" THEN <<>>
       ELSE products
  /\ lastOp' = "syncWithLocalStorage"
  /\ outcome' =
       IF hasWindow /\ localStorage.kind = "malformed" THEN "threw" ELSE "ok"
  /\ UNCHANGED <<localStorage, hasWindow, uuidCount>>

\* JSON.parse of a malformed text throws before set is called, and
\* syncWithLocalStorage has no handler: the error reaches the caller
syncWithLocalStorage ==
  /\ products' =
       IF hasWindow /\ localStorage.kind = "json"
       THEN JSONparse(localStorage.text)
       ELSE products
  /\ lastOp' = "syncWithLocalStorage"
  /\ outcome' =
       IF hasWindow /\ localStorage.kind = "malformed" THEN "threw" ELSE "ok"
  /\ UNCHANGED <<localStorage, hasWindow, uuidCount>>

\* ---------------------------------------------------------------- reads
\* The three queries as steps of a caller.  slice and filter build new
\* arrays and the queries call neither set nor localStorage.
\* fetchProducts taking the page out of the array (splice for slice)
FetchProducts_splice(page, pageSize) ==
  /\ products' =
       SubSeq(products, 1, Min((page - 1) * pageSize, Len(products)))
         \o SubSeq(products, (page - 1) * pageSize + pageSize + 1,
                   Len(products))
  /\ localStorage' = localStorage
  /\ lastOp' = "fetchProducts"
  /\ outcome' = "ok"
  /\ UNCHANGED <<hasWindow, uuidCount>>

FetchProducts(page, pageSize) ==
  /\ products' = products
  /\ localStorage' = localStorage
  /\ lastOp' = "fetchProducts"
  /\ outcome' = "ok"
  /\ UNCHANGED <<hasWindow, uuidCount>>

CountProducts ==
  /\ products' = products
  /\ localStorage' = localStorage
  /\ lastOp' = "countProducts"
  /\ outcome' = "ok"
  /\ UNCHANGED <<hasWindow, uuidCount>>

ProductsByStatus ==
  /\ products' = products
  /\ localStorage' = localStorage
  /\ lastOp' = "productsByStatus"
  /\ outcome' = "ok"
  /\ UNCHANGED <<hasWindow, uuidCount>>

\* ---------------------------------------------------------------- table
\* the rows of the table: fetchPaginatedProducts(page, pageSize)
currentPageProducts == fetchProducts(tablePage, tablePageSize)

\* a row with this id, hence a Delete button for it, is on the page
shown(id) ==
  \E i \in 1..Len(currentPageProducts) : currentPageProducts[i].id = id

\* handleDelete: the store is updated first, and fetchProducts reads it
\* through get(), so the length tested is the page's length after the
\* deletion; page is the value the handler closed over
handleDelete(id) ==
  /\ deleteProduct(id)
  /\ \E page \in {tablePage} :
       tablePage' =
         IF page > 1 /\ Len(fetchProducts(page, tablePageSize)') = 1
         THEN page - 1
         ELSE page

\* the Previous button never disabled and its handler going one page down
\* with no floor
clickPrevious_noFloor ==
  /\ tablePage' = tablePage - 1
  /\ lastOp' = "clickPrevious"
  /\ outcome' = "ok"
  /\ UNCHANGED <<products, localStorage, hasWindow, uuidCount>>

\* a click on the Previous button: disabled on page 1, where the click
\* reaches no handler
clickPrevious ==
  /\ tablePage' =
       IF tablePage = 1 THEN tablePage ELSE Max(tablePage - 1, 1)
  /\ lastOp' = "clickPrevious"
  /\ outcome' = "ok"
  /\ UNCHANGED <<products, localStorage, hasWindow, uuidCount>>

\* the Next handler going one page up without looking at the following page
clickNext_always ==
  /\ tablePage' =
       IF Len(currentPageProducts) < tablePageSize THEN tablePage
       ELSE tablePage + 1
  /\ lastOp' = "clickNext"
  /\ outcome' = "ok"
  /\ UNCHANGED <<products, localStorage, hasWindow, uuidCount>>

\* a click on the Next button: disabled when the page shows fewer than
\* pageSize rows, where the click reaches no handler
clickNext ==
  /\ tablePage' =
       IF Len(currentPageProducts) < tablePageSize THEN tablePage
       ELSE IF Len(fetchProducts(tablePage + 1, tablePageSize)) # 0
       THEN tablePage + 1
       ELSE tablePage
  /\ lastOp' = "clickNext"
  /\ outcome' = "ok"
  /\ UNCHANGED <<products, localStorage, hasWindow, uuidCount>>

\* ---------------------------------------------------------------- form
\* HomePage's modal (isModalOpen, selectedProduct) and the ProductForm it
\* renders while open.  In formData, as in a product, title stands for the
\* free-text fields (recipient, recipientPhone, description, origin,
\* destination), which handleInputChange and validateForm treat alike; in a
\* package, name stands for its text fields (weightUnit, quantityUnit) and
\* weight for its numbers (quantity).

\* no ProductForm is mounted: the modal is closed
NoForm == [mounted |-> FALSE]

\* useState<Product | null>(null)
NoProduct == [selected |-> FALSE]

\* the number 0
Zero == "0"

\* !v is true
falsy(v) == v \in {"", Zero, NaN, Undefined, Null, Absent}

\* a || b
orElse(a, b) == IF falsy(a) THEN b ELSE a

\* the package the form starts with and addPackage appends
emptyPackage == [name |-> "", weight |-> Zero]
filledPackage == [name |-> "a", weight |-> "a"]

\* what the packages key of a stored product can hold; the store model
\* does not keep the key
StoredPackages == {<<>>, <<emptyPackage>>, <<filledPackage>>}

\* initialData={selectedProduct || {}}
initialData == IF selectedProduct = NoProduct THEN NoFields ELSE selectedProduct

isEditing == ~falsy(initialData.id)

\* the initial state of formData, computed when the form is mounted;
\* packages is initialData.packages
initialFormData(data, packages) ==
  [title |-> orElse(data.title, ""),
   eta |-> orElse(data.eta, Zero),
   status |-> orElse(data.status, Pending),
   packages |-> packages]

\* the states a form mounted over this product or null starts in
mountForm(product) ==
  IF product = NoProduct
  THEN {initialFormData(NoFields, <<emptyPackage>>)}
  ELSE {initialFormData(product, packages) : packages \in StoredPackages}

\* the product object the form hands to the store: formData has no id key
formProduct ==
  [id |-> Absent, title |-> formData.title, eta |-> formData.eta,
   status |-> formData.status]

\* the Add Product button: setIsModalOpen(true), nothing else; a form that
\* is mounted keeps its state
clickAddProduct ==
  /\ isModalOpen' = TRUE
  /\ selectedProduct' = selectedProduct
  /\ formData' \in IF isModalOpen THEN {formData} ELSE mountForm(selectedProduct)
  /\ lastOp' = "clickAddProduct"
  /\ outcome' = "ok"
  /\ UNCHANGED <<products, localStorage, hasWindow, uuidCount, tablePage>>

\* the Edit button of a row: onEditProduct(product), which is
\* handleOpenModal
handleOpenModal(product) ==
  /\ selectedProduct' = product
  /\ isModalOpen' = TRUE
  /\ formData' \in IF isModalOpen THEN {formData} ELSE mountForm(product)
  /\ lastOp' = "handleOpenModal"
  /\ outcome' = "ok"
  /\ UNCHANGED <<products, localStorage, hasWindow, uuidCount, tablePage>>

\* handleCloseModal leaving the selected product in place
handleCloseModal_keepSelection ==
  /\ isModalOpen' = FALSE
  /\ selectedProduct' = selectedProduct
  /\ formData' = NoForm

\* handleCloseModal: the modal closes, which unmounts the form
handleCloseModal ==
  /\ isModalOpen' = FALSE
  /\ selectedProduct' = NoProduct
  /\ formData' = NoForm

\* the modal's close button and the form's Cancel button
clickClose ==
  /\ isModalOpen
  /\ handleCloseModal
  /\ lastOp' = "handleCloseModal"
  /\ outcome' = "ok"
  /\ UNCHANGED <<products, localStorage, hasWindow, uuidCount, tablePage>>

\* handleInputChange with the status select rendered in every form
handleInputChange_statusAlways(name, value) ==
  /\ isModalOpen
  /\ formData' = [formData EXCEPT ![name] = value]
  /\ UNCHANGED <<products, localStorage, hasWindow, uuidCount, tablePage,
                 isModalOpen, selectedProduct, lastOp, outcome>>

\* handleInputChange, from the title input or from the status select, which
\* is rendered only when isEditing
handleInputChange(name, value) ==
  /\ isModalOpen
  /\ name = "status" => isEditing
  /\ formData' = [formData EXCEPT ![name] = value]
  /\ UNCHANGED <<products, localStorage, hasWindow, uuidCount, tablePage,
                 isModalOpen, selectedProduct, lastOp, outcome>>

\* onChange of the eta input: a timestamp, or undefined for an emptied input
etaOnChange(value) ==
  /\ isModalOpen
  /\ formData' =
       [formData EXCEPT !.eta = IF value # "" THEN Timestamp ELSE Undefined]
  /\ UNCHANGED <<products, localStorage, hasWindow, uuidCount, tablePage,
                 isModalOpen, selectedProduct, lastOp, outcome>>

\* handlePackageChange from an input of the row at this (zero-based) index
handlePackageChange(name, value, index) ==
  /\ isModalOpen
  /\ index < Len(formData.packages)
  /\ formData' = [formData EXCEPT !.packages[index + 1][name] = value]
  /\ UNCHANGED <<products, localStorage, hasWindow, uuidCount, tablePage,
                 isModalOpen, selectedProduct, lastOp, outcome>>

addPackage ==
  /\ isModalOpen
  /\ formData' =
       [formData EXCEPT !.packages = Append(formData.packages, emptyPackage)]
  /\ UNCHANGED <<products, localStorage, hasWindow, uuidCount, tablePage,
                 isModalOpen, selectedProduct, lastOp, outcome>>

\* removePackage from the Remove button of the row at this index
removePackage(index) ==
  /\ isModalOpen
  /\ index < Len(formData.packages)
  /\ formData' =
       [formData EXCEPT !.packages =
          SubSeq(formData.packages, 1, index)
            \o SubSeq(formData.packages, index + 2, Len(formData.packages))]
  /\ UNCHANGED <<products, localStorage, hasWindow, uuidCount, tablePage,
                 isModalOpen, selectedProduct, lastOp, outcome>>

\* validateForm: no error is recorded
validateForm ==
  /\ ~falsy(formData.title)
  /\ ~(falsy(formData.eta) \/ formData.eta = Zero)
  /\ ~(Len(formData.packages) = 0)
  /\ \A i \in 1..Len(formData.packages) :
       /\ ~falsy(formData.packages[i].name)
       /\ ~falsy(formData.packages[i].weight)

\* the Save button of the form that validates
saveProduct ==
  /\ isModalOpen
  /\ IF validateForm
     THEN /\ IF isEditing
             THEN updateProduct(initialData.id, formProduct)
             ELSE createProduct(formProduct)
          /\ handleCloseModal
     ELSE /\ lastOp' = "saveProduct"
          /\ outcome' = "invalid"
          /\ UNCHANGED <<products, localStorage, hasWindow, uuidCount,
                         isModalOpen, selectedProduct, formData>>
  /\ UNCHANGED tablePage

\* the Save button of the form that has no validateForm
saveProduct_001 ==
  /\ isModalOpen
  /\ IF isEditing
     THEN updateProduct(initialData.id, formProduct)
     ELSE createProduct(formProduct)
  /\ handleCloseModal
  /\ UNCHANGED tablePage

\* ---------------------------------------------------------------- environment
\* Local storage belongs to the browser profile: the user (or another script
\* of the origin) can remove the item or leave a text that is no JSON.
storageCleared ==
  /\ hasWindow
  /\ localStorage.kind # "none"
  /\ localStorage' = NoItem
  /\ lastOp' = "storageCleared"
  /\ outcome' = "ok"
  /\ UNCHANGED <<products, hasWindow, uuidCount>>

storageCorrupted ==
  /\ hasWindow
  /\ localStorage.kind # "malformed"
  /\ localStorage' = MalformedItem
  /\ lastOp' = "storageCorrupted"
  /\ outcome' = "ok"
  /\ UNCHANGED <<products, hasWindow, uuidCount>>

\* A page reload: the module is evaluated again, so the store is created
\* with products: [], and HomePage renders from it.  Nothing on that path
\* calls syncWithLocalStorage.  Local storage outlives the reload.
Reload ==
  /\ products' = <<>>
  /\ tablePage' = 1
  /\ isModalOpen' = FALSE
  /\ selectedProduct' = NoProduct
  /\ formData' = NoForm
  /\ lastOp' = "reload"
  /\ outcome' = "ok"
  /\ UNCHANGED <<localStorage, hasWindow, uuidCount>>

Init ==
  /\ products = <<>>
  /\ localStorage = NoItem
  /\ hasWindow \in BOOLEAN
  /\ uuidCount = 0
  /\ lastOp = "init"
  /\ outcome = "ok"
  /\ tablePage = 1
  /\ isModalOpen = FALSE
  /\ selectedProduct = NoProduct
  /\ formData = NoForm

Next ==
  \/ \E product \in CreateInputs :
       uuidCount < MaxUuid /\ createProduct(product) /\ UNCHANGED <<tablePage, formVars>>
  \/ \E id \in IdArgs : \E updatedProduct \in Partials :
       updateProduct(id, updatedProduct) /\ UNCHANGED <<tablePage, formVars>>
  \/ \E id \in IdArgs : deleteProduct(id) /\ UNCHANGED <<tablePage, formVars>>
  \/ syncWithLocalStorage /\ UNCHANGED <<tablePage, formVars>>
  \/ Reload

Spec == Init /\ [][Next]_vars

\* The behaviours that exercise the stored value: products whose eta is any
\* number, ids and status left alone, the queries, and the item changed
\* from outside.
NextStorage ==
  \/ \E product \in StorageInputs :
       uuidCount < MaxUuid /\ createProduct(product) /\ UNCHANGED <<tablePage, formVars>>
  \/ \E id \in IdArgs : \E updatedProduct \in EtaPartials :
       updateProduct(id, updatedProduct) /\ UNCHANGED <<tablePage, formVars>>
  \/ \E id \in IdArgs : deleteProduct(id) /\ UNCHANGED <<tablePage, formVars>>
  \/ syncWithLocalStorage /\ UNCHANGED <<tablePage, formVars>>
  \/ \E page \in 1..2 : \E pageSize \in {1, tablePageSize} :
       FetchProducts(page, pageSize) /\ UNCHANGED <<tablePage, formVars>>
  \/ CountProducts /\ UNCHANGED <<tablePage, formVars>>
  \/ ProductsByStatus /\ UNCHANGED <<tablePage, formVars>>
  \/ storageCleared /\ UNCHANGED <<tablePage, formVars>>
  \/ storageCorrupted /\ UNCHANGED <<tablePage, formVars>>
  \/ Reload

SpecStorage == Init /\ [][NextStorage]_vars

\* The behaviours that fill the table: more products, all from one input,
\* and the table's buttons.
NextTable ==
  \/ \E product \in TableInputs :
       uuidCount < MaxTableUuid /\ createProduct(product)
         /\ UNCHANGED <<tablePage, formVars>>
  \/ \E id \in IdArgs :
       shown(id) /\ handleDelete(id) /\ UNCHANGED formVars
  \/ clickPrevious /\ UNCHANGED formVars
  \/ clickNext /\ UNCHANGED formVars
  \/ syncWithLocalStorage /\ UNCHANGED <<tablePage, formVars>>
  \/ Reload

SpecTable == Init /\ [][NextTable]_vars

\* The behaviours of the modal and its form, in a browser: products come
\* from the form alone.  Nothing disables the buttons of the page while the
\* modal is open.
InitForm == Init /\ hasWindow

NextForm ==
  \/ clickAddProduct
  \/ \E i \in 1..Len(currentPageProducts) :
       handleOpenModal(currentPageProducts[i])
  \/ clickClose
  \/ \E value \in {"", "a"} : handleInputChange("title", value)
  \/ \E value \in Status : handleInputChange("status", value)
  \/ \E value \in {"", "2023-11-14T22:13"} : etaOnChange(value)
  \/ \E name \in {"name", "weight"} : \E value \in {"", "a"} :
       handlePackageChange(name, value, 0)
  \/ isModalOpen /\ Len(formData.packages) < MaxPackages /\ addPackage
  \/ \E index \in 0..(MaxPackages - 1) : removePackage(index)
  \/ (isEditing \/ uuidCount < MaxFormUuid) /\ saveProduct
  \/ (isEditing \/ uuidCount < MaxFormUuid) /\ saveProduct_001

SpecForm == InitForm /\ [][NextForm]_vars

\* ---------------------------------------------------------------- helpers
Mutations == {"createProduct", "updateProduct", "deleteProduct"}

idsOf(ps) == [i \in 1..Len(ps) |-> ps[i].id]

\* the pages up to LastPage reach past the end of every collection
LastPage == Max(MaxUuid, MaxTableUuid) + 1
Pages == 1..LastPage
PageSizes == 1..MaxPageSize

RECURSIVE concatPages(_, _)
concatPages(lastPage, pageSize) ==
  IF lastPage = 0 THEN <<>>
  ELSE concatPages(lastPage - 1, pageSize) \o fetchProducts(lastPage, pageSize)

\* what HomePage shows: the total of the summary box and the table's pages
homePageView ==
  [totalProducts |-> countProducts,
   rows |-> [page \in Pages |-> fetchProducts(page, tablePageSize)]]

\* ---------------------------------------------------------------- claims
\* C1: with local storage available, right after createProduct,
\* updateProduct or deleteProduct the value stored under 'products' decodes
\* to exactly the in-memory collection.
C1_StoredEqualsMemory ==
  (hasWindow /\ lastOp \in Mutations) =>
    /\ localStorage.kind = "json"
    /\ JSONparse(localStorage.text) = products

\* C2: a page reload (local storage kept) leaves the products the home
\* page displays and counts as they were at the end of the previous session.
C2_ReloadKeepsProducts ==
  [][(hasWindow /\ lastOp' = "reload") => homePageView' = homePageView]_vars

\* C3: no two products of the collection have the same id.
C3_UniqueIds ==
  \A i, j \in 1..Len(products) : i # j => products[i].id # products[j].id

\* C4: the three counts of productsByStatus add up to countProducts.
C4_StatusCountsSum ==
  productsByStatus.pending + productsByStatus.delivered
    + productsByStatus.cancelled = countProducts

\* C5: updateProduct leaves the sequence of ids of the collection as it was.
C5_UpdateKeepsIds ==
  [][lastOp' = "updateProduct" => idsOf(products') = idsOf(products)]_vars

\* C6: for every page size, the pages 1, 2, 3, ... concatenated give the
\* collection in its order; a page before the last is full and a page past
\* the end is empty.
C6_PagesPartition ==
  \A pageSize \in PageSizes :
    /\ concatPages(LastPage, pageSize) = products
    /\ \A page \in Pages :
         /\ page * pageSize < countProducts =>
              Len(fetchProducts(page, pageSize)) = pageSize
         /\ (page - 1) * pageSize >= countProducts =>
              fetchProducts(page, pageSize) = <<>>

C6_Witness ==
  /\ countProducts > MaxPageSize
  /\ fetchProducts(2, MaxPageSize) # <<>>
  /\ Len(fetchProducts(2, MaxPageSize)) < MaxPageSize

\* C7: fetchProducts(page, pageSize) has min(pageSize, max(0, n - (page-1) *
\* pageSize)) products, n the length of the collection.
C7_PageLength ==
  \A pageSize \in PageSizes : \A page \in Pages :
    Len(fetchProducts(page, pageSize)) =
      Min(pageSize, Max(0, countProducts - (page - 1) * pageSize))

C7_Witness ==
  /\ countProducts >= 2
  /\ Len(fetchProducts(1, 1)) = 1
  /\ fetchProducts(countProducts + 1, 1) = <<>>

\* C8: createProduct makes the collection one longer, keeps the products
\* that were there in their places, and puts last a product with the fields
\* of the input.
C8_CreateAppends ==
  [][\A product \in CreateInputs :
       createProduct(product) =>
         /\ countProducts' = countProducts + 1
         /\ SubSeq(products', 1, Len(products)) = products
         /\ \A k \in Keys \ {"id"} :
              products'[Len(products')][k] = product[k]]_vars

C8_Witness == lastOp = "createProduct" /\ countProducts >= 2

\* C9: a product created from an input without a status key has status
\* Pending.
C9_DefaultStatusPending ==
  [][\A product \in CreateInputs :
       (product.status = Absent /\ createProduct(product)) =>
         products'[Len(products')].status = Pending]_vars

\* C10: when a product has id X and status Pending, updateProduct(X,
\* {status: Delivered}) moves one count from pending to delivered, leaves
\* cancelled, and leaves the other fields of that product as they were.
C10_StatusMove ==
  [][\A id \in IdArgs :
       ( /\ \E i \in 1..Len(products) :
              products[i].id = id /\ products[i].status = Pending
         /\ updateProduct(id, [NoFields EXCEPT !.status = Delivered]) ) =>
         /\ productsByStatus.pending' = productsByStatus.pending - 1
         /\ productsByStatus.delivered' = productsByStatus.delivered + 1
         /\ productsByStatus.cancelled' = productsByStatus.cancelled
         /\ \A i \in 1..Len(products) :
              products[i].id = id =>
                \A k \in Keys \ {"status"} : products'[i][k] = products[i][k]]_vars

\* the products whose id differs from id, in their order
RECURSIVE othersOf(_, _)
othersOf(ps, id) ==
  IF ps = <<>> THEN <<>>
  ELSE IF Head(ps).id = id THEN othersOf(Tail(ps), id)
  ELSE <<Head(ps)>> \o othersOf(Tail(ps), id)

Reads == {"fetchProducts", "countProducts", "productsByStatus"}

\* C11: updateProduct(id, partial) keeps the length and the order, every
\* product whose id differs from id, and in a product whose id matches
\* every field the partial does not name.
C11_UpdateFrame ==
  [][\A id \in IdArgs : \A updatedProduct \in Partials :
       updateProduct(id, updatedProduct) =>
         /\ Len(products') = Len(products)
         /\ \A i \in 1..Len(products) :
              IF products[i].id = id
              THEN \A k \in Keys :
                     updatedProduct[k] = Absent =>
                       products'[i][k] = products[i][k]
              ELSE products'[i] = products[i]]_vars

C11_Witness ==
  /\ lastOp = "updateProduct"
  /\ outcome = "hit"
  /\ Len(products) = 2
  /\ products[1].status # products[2].status

\* C12: updateProduct with an id no product has leaves the collection as it
\* was, raises nothing, and still writes the collection to local storage.
C12_UpdateMiss ==
  [][\A id \in IdArgs : \A updatedProduct \in EtaPartials :
       (~matches(id) /\ updateProduct(id, updatedProduct)) =>
         /\ products' = products
         /\ outcome' # "threw"
         /\ hasWindow => localStorage' = Item(JSONstringify(products))]_vars

C12_Witness ==
  /\ lastOp = "updateProduct"
  /\ outcome = "miss"
  /\ hasWindow
  /\ products # <<>>
  /\ localStorage = Item(JSONstringify(products))

\* C13: after deleteProduct(id) no page holds a product with that id, and
\* countProducts is one less when a product had that id, the same when none
\* had.
C13_DeleteCount ==
  [][\A id \in IdArgs :
       deleteProduct(id) =>
         /\ \A page \in Pages : \A pageSize \in PageSizes :
              \A i \in 1..Len(fetchProducts(page, pageSize)') :
                fetchProducts(page, pageSize)'[i].id # id
         /\ countProducts' =
              IF matches(id) THEN countProducts - 1 ELSE countProducts]_vars

\* C14: deleteProduct(id) keeps the products whose id differs from id, as
\* they were and in their order.
C14_DeleteFrame ==
  [][\A id \in IdArgs :
       deleteProduct(id) =>
         othersOf(products', id) = othersOf(products, id)]_vars

C14_Witness ==
  /\ lastOp = "deleteProduct"
  /\ outcome = "hit"
  /\ products # <<>>

\* C15: syncWithLocalStorage over a well-formed stored value makes the
\* in-memory collection the stored one and leaves the stored value alone.
C15_SyncReplaces ==
  [][(hasWindow /\ localStorage.kind = "json" /\ syncWithLocalStorage) =>
       /\ products' = JSONparse(localStorage.text)
       /\ localStorage' = localStorage]_vars

C15_Witness ==
  /\ lastOp = "syncWithLocalStorage"
  /\ hasWindow
  /\ localStorage.kind = "json"
  /\ \E i \in 1..Len(products) : products[i].eta = Null

\* C16: syncWithLocalStorage leaves the in-memory collection as it was when
\* local storage is unavailable or holds no 'products' item.
C16_SyncNoItem ==
  [][((~hasWindow \/ localStorage.kind = "none") /\ syncWithLocalStorage) =>
       products' = products]_vars

C16_Witness ==
  /\ lastOp = "syncWithLocalStorage"
  /\ hasWindow
  /\ localStorage.kind = "none"
  /\ products # <<>>

\* C17: syncWithLocalStorage over a malformed stored value raises nothing
\* to its caller and leaves the in-memory collection as it was.
C17_SyncMalformedSilent ==
  [][(hasWindow /\ localStorage.kind = "malformed" /\ syncWithLocalStorage) =>
       /\ outcome' # "threw"
       /\ products' = products]_vars

\* C18: without local storage, createProduct, updateProduct and
\* deleteProduct make the in-memory change they make with it, raise nothing
\* and write nothing.
C18_NoWindow ==
  [][~hasWindow =>
       /\ lastOp' \in Mutations =>
            outcome' # "threw" /\ localStorage' = localStorage
       /\ \A product \in CreateInputs :
            createProduct(product) =>
              products' =
                Append(products,
                       [product EXCEPT !.id = randomUUID(uuidCount + 1)])
       /\ \A id \in IdArgs : \A updatedProduct \in Partials :
            updateProduct(id, updatedProduct) =>
              products' =
                [i \in 1..Len(products) |->
                   IF products[i].id = id
                   THEN [k \in Keys |->
                           IF updatedProduct[k] = Absent
                           THEN products[i][k]
                           ELSE updatedProduct[k]]
                   ELSE products[i]]
       /\ \A id \in IdArgs :
            deleteProduct(id) => products' = othersOf(products, id)]_vars

C18_Witness ==
  /\ ~hasWindow
  /\ lastOp \in Mutations
  /\ products # <<>>
  /\ localStorage = NoItem

\* C19: fetchProducts, countProducts and productsByStatus change neither
\* the in-memory collection nor the stored value.
C19_ReadsChangeNothing ==
  [][lastOp' \in Reads =>
       products' = products /\ localStorage' = localStorage]_vars

C19_Witness ==
  /\ lastOp = "fetchProducts"
  /\ products # <<>>
  /\ localStorage.kind = "json"

\* C20: in the product table, on a page after the first, deleting the last
\* product left on the page makes the previous page the current one.
C20_DeleteLastGoesBack ==
  [][\A id \in IdArgs :
       ( /\ tablePage > 1
         /\ Len(currentPageProducts) = 1
         /\ shown(id)
         /\ handleDelete(id) ) =>
         tablePage' = tablePage - 1]_vars

\* the ids of the products in the stored collection
persistedIds(item) ==
  IF item.kind = "json"
  THEN {item.text[i].id : i \in 1..Len(item.text)}
  ELSE {}

\* C21: across page reloads and store operations, a product of the
\* persisted collection stays in the persisted collection until
\* deleteProduct is called with its id.
C21_PersistedUntilDeleted ==
  [][\A id \in persistedIds(localStorage) :
       id \in persistedIds(localStorage') \/ deleteProduct(id)]_vars

\* C22: in the product table, deleting a product from a page that still
\* holds at least one product after the deletion leaves the page number
\* unchanged.
C22_DeleteKeepsPage ==
  [][\A id \in IdArgs :
       ( /\ shown(id)
         /\ handleDelete(id)
         /\ Len(currentPageProducts') >= 1 ) =>
         tablePage' = tablePage]_vars

\* C23: a click on Next moves the table one page up when the following page
\* holds at least one product and leaves the page unchanged otherwise, so
\* it never moves the table to an empty page.
C23_NextOnlyToProducts ==
  [][clickNext =>
       /\ tablePage' =
            IF Len(fetchProducts(tablePage + 1, tablePageSize)) >= 1
            THEN tablePage + 1
            ELSE tablePage
       /\ tablePage' # tablePage => Len(currentPageProducts') >= 1]_vars

C23_Witness ==
  /\ lastOp = "clickNext"
  /\ tablePage = 2
  /\ Len(currentPageProducts) >= 1

\* C24: the table's page is at least 1 after any sequence of Next,
\* Previous, create and delete actions, and a click on Previous at page 1
\* leaves the page at 1.
C24_PageAtLeastOne ==
  [][/\ tablePage >= 1
     /\ tablePage' >= 1
     /\ (clickPrevious /\ tablePage = 1) => tablePage' = 1]_vars

C24_Witness ==
  /\ lastOp = "clickPrevious"
  /\ tablePage = 1
  /\ Len(products) > tablePageSize

\* C25: pressing Save in the product form while a required field is empty
\* (title, eta, no package, or a package with an empty field) calls neither
\* createProduct nor updateProduct, leaves the store unchanged and leaves
\* the form open.
C25_InvalidSaveDoesNothing ==
  [][( /\ isModalOpen
       /\ ~validateForm
       /\ (saveProduct \/ saveProduct_001) ) =>
       /\ UNCHANGED <<products, localStorage>>
       /\ lastOp' \notin Mutations
       /\ isModalOpen']_vars

C27_AddOpensCreateMode ==
  [][/\ ~isModalOpen => selectedProduct = NoProduct
     /\ ~isModalOpen' => selectedProduct' = NoProduct
     /\ (~isModalOpen /\ clickAddProduct) =>
          /\ isModalOpen'
          /\ ~isEditing'
          /\ formData' = initialFormData(NoFields, <<emptyPackage>>)
     /\ ( /\ isModalOpen
          /\ selectedProduct = NoProduct
          /\ (saveProduct \/ saveProduct_001) ) =>
          lastOp' # "updateProduct"]_vars

C27_Witness ==
  /\ lastOp = "clickAddProduct"
  /\ isModalOpen
  /\ selectedProduct = NoProduct
  /\ \E i \in 1..Len(products) : products[i].status # Pending

====
